---------------------------- MODULE Spec2Model ----------------------------
(***************************************************************************)
(* Model of src/util/transform.cpp (frustum, ortho, perspective,           *)
(* translation, rotation) and src/util/core.hpp (const_hash, ASSERT).      *)
(*                                                                         *)
(* Numbers.  A C++ float is carried as a fraction [n, d] in lowest terms   *)
(* with d >= 0.  d = 0 encodes the IEEE special values: 1/0 is +infinity,  *)
(* -1/0 is -infinity and 0/0 is NaN.  Arithmetic follows IEEE 754 on the   *)
(* special values (x/0, inf - inf, 0 * inf, NaN propagation, NaN != NaN)   *)
(* and on the range of the type: a result larger in magnitude than         *)
(* FloatMax becomes an infinity and a non-zero result of magnitude at most *)
(* 1/(2*FloatMax) becomes zero.  FloatMax is a scaled-down stand-in for    *)
(* the real exponent range.  Rounding inside the range is not modelled:    *)
(* in-range results are exact.  Signed zero is not modelled (-0 == 0).     *)
(***************************************************************************)
EXTENDS Integers, Sequences, FiniteSets, TLC

\* ------------------------------------------------------------------ bounds
FloatMax == 32768         \* largest finite magnitude of the model's float
MaxZ == 2                 \* near/far planes are drawn from -1 .. MaxZ
MaxLen == 3               \* longest char array handed to const_hash

VARIABLES NDEBUG, SizeW, CharSigned, status, diag, op, args, ret

vars == <<NDEBUG, SizeW, CharSigned, status, diag, op, args, ret>>

\* --------------------------------------------------------------- fractions
Abs(k) == IF k < 0 THEN -k ELSE k

Sgn(k) == IF k < 0 THEN -1 ELSE IF k > 0 THEN 1 ELSE 0

RECURSIVE GCD(_, _)
GCD(a, b) == IF b = 0 THEN a ELSE GCD(b, a % b)

Rat(n, d) ==
  IF d = 0 THEN [n |-> Sgn(n), d |-> 0]
  ELSE LET g == GCD(Abs(n), Abs(d))
       IN  [n |-> (Sgn(d) * n) \div g, d |-> Abs(d) \div g]

NaN == [n |-> 0, d |-> 0]
PInf == [n |-> 1, d |-> 0]
NInf == [n |-> -1, d |-> 0]
F(k) == [n |-> k, d |-> 1]
Zero == F(0)
One == F(1)

IsNaN(a) == a.d = 0 /\ a.n = 0
IsInf(a) == a.d = 0 /\ a.n # 0
IsFinite(a) == a.d # 0

\* exact arithmetic on the extended fractions
QNeg(a) == [n |-> -a.n, d |-> a.d]

QAdd(a, b) ==
  IF IsNaN(a) \/ IsNaN(b) THEN NaN
  ELSE IF IsInf(a) THEN (IF IsInf(b) /\ a.n # b.n THEN NaN ELSE a)
  ELSE IF IsInf(b) THEN b
  ELSE LET g == GCD(a.d, b.d)
           m == (a.d \div g) * b.d
       IN  Rat(a.n * (m \div a.d) + b.n * (m \div b.d), m)

QSub(a, b) == QAdd(a, QNeg(b))

QMul(a, b) ==
  LET g1 == IF a.n = 0 \/ b.d = 0 THEN 1 ELSE GCD(Abs(a.n), b.d)
      g2 == IF b.n = 0 \/ a.d = 0 THEN 1 ELSE GCD(Abs(b.n), a.d)
  IN  Rat((a.n \div g1) * (b.n \div g2), (a.d \div g2) * (b.d \div g1))

QDiv(a, b) ==
  LET s == IF b.n < 0 THEN -1 ELSE 1
  IN  QMul(a, [n |-> s * b.d, d |-> Abs(b.n)])

\* the range of the float type: overflow to an infinity, underflow to zero
fl(a) ==
  IF a.d = 0 \/ a.n = 0 THEN a
  ELSE LET m == Abs(a.n)
       IN  IF (m \div a.d > FloatMax) \/ (m \div a.d = FloatMax /\ m % a.d # 0)
             THEN [n |-> Sgn(a.n), d |-> 0]
           ELSE IF a.d \div m >= 2 * FloatMax THEN Zero
           ELSE a

\* C++ float operators
FNeg(a) == QNeg(a)
FAdd(a, b) == fl(QAdd(a, b))
FSub(a, b) == fl(QSub(a, b))
FMul(a, b) == fl(QMul(a, b))
FDiv(a, b) == fl(QDiv(a, b))
FEq(a, b) == ~IsNaN(a) /\ ~IsNaN(b) /\ a = b
FNe(a, b) == ~FEq(a, b)
FLt(a, b) ==
  /\ ~IsNaN(a) /\ ~IsNaN(b) /\ a # b
  /\ \/ a = NInf
     \/ b = PInf
     \/ IsFinite(a) /\ IsFinite(b) /\ QSub(a, b).n < 0

\* ---------------------------------------------------------------- matrices
Idx == 0 .. 3

\* Gl_Matrix{e0, ..., e15}: sixteen entries, row by row
Gl_Matrix(e) == [i \in Idx |-> [j \in Idx |-> e[4 * i + j + 1]]]

\* Gl_Matrix::unit()
unit == [i \in Idx |-> [j \in Idx |-> IF i = j THEN One ELSE Zero]]

\* ---------------------------------------------------------------- outcomes
Returned(v) == [status |-> "returned", diag |-> "none", ret |-> <<v>>]
Terminated(by) == [status |-> "terminated", diag |-> by, ret |-> <<>>]

\* BOOST_ASSERT(expr): TRUE when execution continues past the check
BOOST_ASSERT(ndebug, expr) == ndebug \/ expr

\* ------------------------------------------------------------ projections
\* frustum without its third check
frustum_NoDepthCheck(ndebug, l, r, b, t, n, f) ==
  IF ~BOOST_ASSERT(ndebug, FNe(l, r)) THEN Terminated("assert")
  ELSE IF ~BOOST_ASSERT(ndebug, FNe(b, t)) THEN Terminated("assert")
  ELSE Returned(Gl_Matrix(<<
    FDiv(FMul(F(2), n), FSub(r, l)), Zero, FDiv(FAdd(r, l), FSub(r, l)), Zero,
    Zero, FDiv(FMul(F(2), n), FSub(t, b)), FDiv(FAdd(t, b), FSub(t, b)), Zero,
    Zero, Zero, FDiv(FNeg(FAdd(f, n)), FSub(f, n)),
                FDiv(FMul(FMul(F(-2), f), n), FSub(f, n)),
    Zero, Zero, F(-1), Zero>>))

\* frustum with the sign of the depth scale lost
frustum_DepthSign(ndebug, l, r, b, t, n, f) ==
  IF ~BOOST_ASSERT(ndebug, FNe(l, r)) THEN Terminated("assert")
  ELSE IF ~BOOST_ASSERT(ndebug, FNe(b, t)) THEN Terminated("assert")
  ELSE IF ~BOOST_ASSERT(ndebug, FNe(n, f)) THEN Terminated("assert")
  ELSE Returned(Gl_Matrix(<<
    FDiv(FMul(F(2), n), FSub(r, l)), Zero, FDiv(FAdd(r, l), FSub(r, l)), Zero,
    Zero, FDiv(FMul(F(2), n), FSub(t, b)), FDiv(FAdd(t, b), FSub(t, b)), Zero,
    Zero, Zero, FDiv(FAdd(f, n), FSub(f, n)),
                FDiv(FMul(FMul(F(-2), f), n), FSub(f, n)),
    Zero, Zero, F(-1), Zero>>))

frustum(ndebug, l, r, b, t, n, f) ==
  IF ~BOOST_ASSERT(ndebug, FNe(l, r)) THEN Terminated("assert")
  ELSE IF ~BOOST_ASSERT(ndebug, FNe(b, t)) THEN Terminated("assert")
  ELSE IF ~BOOST_ASSERT(ndebug, FNe(n, f)) THEN Terminated("assert")
  ELSE Returned(Gl_Matrix(<<
    FDiv(FMul(F(2), n), FSub(r, l)), Zero, FDiv(FAdd(r, l), FSub(r, l)), Zero,
    Zero, FDiv(FMul(F(2), n), FSub(t, b)), FDiv(FAdd(t, b), FSub(t, b)), Zero,
    Zero, Zero, FDiv(FNeg(FAdd(f, n)), FSub(f, n)),
                FDiv(FMul(FMul(F(-2), f), n), FSub(f, n)),
    Zero, Zero, F(-1), Zero>>))

ortho(ndebug, l, r, b, t, n, f) ==
  IF ~BOOST_ASSERT(ndebug, FNe(l, r)) THEN Terminated("assert")
  ELSE IF ~BOOST_ASSERT(ndebug, FNe(b, t)) THEN Terminated("assert")
  ELSE IF ~BOOST_ASSERT(ndebug, FNe(n, f)) THEN Terminated("assert")
  ELSE Returned(Gl_Matrix(<<
    FDiv(F(2), FSub(r, l)), Zero, Zero, FDiv(FNeg(FAdd(r, l)), FSub(r, l)),
    Zero, FDiv(F(2), FSub(t, b)), Zero, FDiv(FNeg(FAdd(t, b)), FSub(t, b)),
    Zero, Zero, FDiv(F(-2), FSub(f, n)), FDiv(FAdd(f, n), FSub(f, n)),
    Zero, Zero, Zero, Zero>>))

\* pi of num.hpp.  Angles in radians are carried in units of pi, so that the
\* tangent of the angles used here has a table entry.
pi == One

\* tan of <cmath> at multiples of pi/12 (15 degrees).  Entries that are not
\* rational are replaced by a nearby fraction; the pole at pi/2, which no
\* float hits exactly, gives the large finite value a float tangent returns.
TanTable ==
  <<F(0), Rat(4, 15), Rat(4, 7), F(1), Rat(7, 4), Rat(15, 4),
    F(FloatMax), Rat(-15, 4), Rat(-7, 4), F(-1), Rat(-4, 7), Rat(-4, 15)>>

tan(x) ==
  CASE ~IsFinite(x) -> NaN
    [] IsFinite(x) /\ (12 * x.n) % x.d = 0 -> TanTable[(((12 * x.n) \div x.d) % 12) + 1]

\* perspective taking the tangent of the whole angle
perspective_WholeAngle(ndebug, v_fov, aspect, z_near, z_far) ==
  LET fh == FMul(tan(FMul(FDiv(v_fov, F(180)), pi)), z_near)
      fw == FMul(fh, aspect)
  IN  frustum(ndebug, FNeg(fw), fw, FNeg(fh), fh, z_near, z_far)

\* perspective ignoring the aspect ratio
perspective_NoAspect(ndebug, v_fov, aspect, z_near, z_far) ==
  LET fh == FMul(tan(FMul(FDiv(v_fov, F(360)), pi)), z_near)
      fw == fh
  IN  frustum(ndebug, FNeg(fw), fw, FNeg(fh), fh, z_near, z_far)

perspective(ndebug, v_fov, aspect, z_near, z_far) ==
  LET fh == FMul(tan(FMul(FDiv(v_fov, F(360)), pi)), z_near)
      fw == FMul(fh, aspect)
  IN  frustum(ndebug, FNeg(fw), fw, FNeg(fh), fh, z_near, z_far)

\* ---------------------------------------------------------------- vectors
Vec3f(x, y, z) == [i \in 0 .. 2 |-> CASE i = 0 -> x [] i = 1 -> y [] i = 2 -> z]

\* translation with the offset in the last column
translation_Column(delta) ==
  LET result == unit
  IN  [i \in Idx |-> IF i < 3 THEN [result[i] EXCEPT ![3] = delta[i]] ELSE result[i]]

translation(delta) ==
  LET result == unit
  IN  [result EXCEPT ![3] = [j \in Idx |-> IF j < 3 THEN delta[j] ELSE @[j]]]

\* sqrt on fractions whose numerator and denominator are perfect squares
ISqrt(k) == CHOOSE r \in 0 .. k : r * r = k

sqrt(a) == Rat(ISqrt(a.n), ISqrt(a.d))

\* Vec3f::normalize(): scale to unit length
normalize(v) ==
  LET len == sqrt(FAdd(FAdd(FMul(v[0], v[0]), FMul(v[1], v[1])), FMul(v[2], v[2])))
  IN  [i \in 0 .. 2 |-> FDiv(v[i], len)]

\* An angle in radians is carried as the point (cos, sin) of its half angle
\* on the unit circle: [ch, sh].  cos and sin of <cmath> follow from it.
Angle(ch, sh) == [ch |-> ch, sh |-> sh]

cos(angle) == FSub(FMul(angle.ch, angle.ch), FMul(angle.sh, angle.sh))

sin(angle) == FMul(F(2), FMul(angle.sh, angle.ch))

\* rotation that uses the axis as given
rotation_NoNormalize(axis, angle) ==
  LET x == axis[0]
      y == axis[1]
      z == axis[2]
      c == cos(angle)
      s == sin(angle)
      k == FSub(One, c)
  IN  Gl_Matrix(<<
        FAdd(c, FMul(FMul(x, x), k)),
        FSub(FMul(FMul(x, y), k), FMul(z, s)),
        FAdd(FMul(FMul(x, z), k), FMul(y, s)),
        Zero,
        FAdd(FMul(FMul(y, x), k), FMul(z, s)),
        FAdd(c, FMul(FMul(y, y), k)),
        FSub(FMul(FMul(y, z), k), FMul(x, s)),
        Zero,
        FSub(FMul(FMul(z, x), k), FMul(y, s)),
        FAdd(FMul(FMul(z, y), k), FMul(x, s)),
        FAdd(c, FMul(FMul(z, z), k)),
        Zero,
        Zero, Zero, Zero, One>>)

rotation(axis, angle) ==
  LET u == normalize(axis)
      x == u[0]
      y == u[1]
      z == u[2]
      c == cos(angle)
      s == sin(angle)
      k == FSub(One, c)
  IN  Gl_Matrix(<<
        FAdd(c, FMul(FMul(x, x), k)),
        FSub(FMul(FMul(x, y), k), FMul(z, s)),
        FAdd(FMul(FMul(x, z), k), FMul(y, s)),
        Zero,
        FAdd(FMul(FMul(y, x), k), FMul(z, s)),
        FAdd(c, FMul(FMul(y, y), k)),
        FSub(FMul(FMul(y, z), k), FMul(x, s)),
        Zero,
        FSub(FMul(FMul(z, x), k), FMul(y, s)),
        FAdd(FMul(FMul(z, y), k), FMul(x, s)),
        FAdd(c, FMul(FMul(z, z), k)),
        Zero,
        Zero, Zero, Zero, One>>)

Quaternion(a, b, c, d) ==
  [i \in Idx |-> CASE i = 0 -> a [] i = 1 -> b [] i = 2 -> c [] i = 3 -> d]

\* 2*q[i]*q[j]
Twice(q, i, j) == FMul(FMul(F(2), q[i]), q[j])

rotationQuaternion(q) ==
  Gl_Matrix(<<
    FSub(One, FAdd(Twice(q, 2, 2), Twice(q, 3, 3))),
    FAdd(Twice(q, 1, 2), Twice(q, 3, 0)),
    FSub(Twice(q, 1, 3), Twice(q, 2, 0)),
    Zero,
    FSub(Twice(q, 1, 2), Twice(q, 3, 0)),
    FSub(One, FAdd(Twice(q, 1, 1), Twice(q, 3, 3))),
    FAdd(Twice(q, 2, 3), Twice(q, 1, 0)),
    Zero,
    FAdd(Twice(q, 1, 3), Twice(q, 2, 0)),
    FSub(Twice(q, 2, 3), Twice(q, 1, 0)),
    FSub(One, FAdd(Twice(q, 1, 1), Twice(q, 2, 2))),
    Zero,
    Zero, Zero, Zero, One>>)

\* --------------------------------------------------------------- core.hpp
\* A size_t is carried as its w bytes, least significant first, so that the
\* arithmetic keeps the width of the type (mod 2^(8*w)).
RECURSIVE XorBits(_, _, _)
XorBits(a, b, bits) ==
  IF bits = 0 THEN 0
  ELSE ((a + b) % 2) + 2 * XorBits(a \div 2, b \div 2, bits - 1)

RECURSIVE XorFrom(_, _, _, _)
XorFrom(a, b, i, w) ==
  IF i > w THEN <<>> ELSE <<XorBits(a[i], b[i], 8)>> \o XorFrom(a, b, i + 1, w)

XorW(a, b, w) == XorFrom(a, b, 1, w)

\* column k of the schoolbook product of a and b
RECURSIVE ColumnSum(_, _, _, _)
ColumnSum(a, b, k, i) ==
  IF i = 0 THEN 0 ELSE a[i] * b[k - i + 1] + ColumnSum(a, b, k, i - 1)

\* bytes k .. w of the product, given the carry into column k
RECURSIVE MulFrom(_, _, _, _, _)
MulFrom(a, b, k, carry, w) ==
  IF k > w THEN <<>>
  ELSE LET t == ColumnSum(a, b, k, k) + carry
       IN  <<t % 256>> \o MulFrom(a, b, k + 1, t \div 256, w)

MulW(a, b, w) == MulFrom(a, b, 1, 0, w)

\* an unsigned 32-bit literal converted to size_t
Unsigned(b0, b1, b2, b3, w) == <<b0, b1, b2, b3>> \o [i \in 1 .. w - 4 |-> 0]

\* 2166136261u = 0x811C9DC5
HashSeed(w) == Unsigned(197, 157, 28, 129, w)

\* 16777619u = 0x01000193
HashPrime(w) == Unsigned(147, 1, 0, 1, w)

\* a char (given by its byte) converted to size_t: promoted to int, so a
\* signed char with the top bit set is sign-extended
CharToSizeT(c, w, signed) ==
  <<c>> \o [i \in 1 .. w - 1 |-> IF signed /\ c >= 128 THEN 255 ELSE 0]

\* _hash_calc<N, I>::apply(s); s[I] of the source is s[I + 1] here
RECURSIVE hash_calc(_, _, _, _)
hash_calc(s, I, w, signed) ==
  IF I = Len(s) THEN HashSeed(w)
  ELSE MulW(XorW(hash_calc(s, I + 1, w, signed), CharToSizeT(s[I + 1], w, signed), w),
            HashPrime(w), w)

\* the fold taken from the first byte to the last
RECURSIVE hash_calc_Forward(_, _, _, _)
hash_calc_Forward(s, I, w, signed) ==
  IF I = Len(s) THEN HashSeed(w)
  ELSE MulW(XorW(hash_calc_Forward(s, I + 1, w, signed),
                 CharToSizeT(s[Len(s) - I], w, signed), w),
            HashPrime(w), w)

const_hash_Forward(s, w, signed) == hash_calc_Forward(s, 0, w, signed)

const_hash(s, w, signed) == hash_calc(s, 0, w, signed)

\* die(format, ...): print the message and end the process
die(format) == Terminated("die")

\* execution goes on after a statement that returns nothing
Continue == [status |-> "returned", diag |-> "none", ret |-> <<>>]

\* ASSERT that is not stripped by NDEBUG
ASSERT_NotStripped(ndebug, expr) ==
  IF expr THEN Continue ELSE die("Assertion %s failed at %s: %d")

\* ASSERT(expr)
ASSERT(ndebug, expr) ==
  IF ndebug THEN Continue
  ELSE IF expr THEN Continue ELSE die("Assertion %s failed at %s: %d")

\* ------------------------------------------------------------------ inputs
\* The arguments of the projections are listed (ordinary values first), and
\* a call picks each of its arguments from a list.
XVals == <<F(-1), F(1), NaN>>
BVals == <<F(-1), F(0)>>
TVals == <<F(0), F(1)>>
ZVals == [k \in 1 .. MaxZ + 1 |-> F(k - 1)] \o <<F(-1), PInf, NInf, NaN>>

Tiny == Rat(1, 512)
Huge == F(FloatMax)
FovVals == <<F(90), F(60), F(120), F(0), F(180), F(270), PInf, NaN>>
AspectVals == <<Tiny, F(1), F(2), F(0), F(-1), PInf>>
NearVals == <<Tiny, F(1), F(0), F(-1), Huge, PInf, NaN>>
FarVals == <<F(2), F(1), F(0), PInf>>

DeltaVals == {F(-1), F(0), F(2), PInf, NaN}

UnitAxes ==
  {Vec3f(One, Zero, Zero), Vec3f(Zero, One, Zero), Vec3f(Zero, Zero, One),
   Vec3f(Zero, Zero, F(-1)), Vec3f(Rat(3, 5), Rat(4, 5), Zero),
   Vec3f(Rat(1, 3), Rat(2, 3), Rat(2, 3)), Vec3f(Rat(-2, 3), Rat(1, 3), Rat(2, 3))}

AxisVals ==
  UnitAxes \cup
  {Vec3f(Zero, Zero, F(2)), Vec3f(F(3), F(4), Zero), Vec3f(F(6), F(8), Zero),
   Vec3f(Zero, F(-3), F(4)), Vec3f(F(1), F(2), F(2)), Vec3f(Rat(1, 2), Zero, Zero)}

AngleVals ==
  {Angle(One, Zero), Angle(Rat(3, 5), Rat(4, 5)), Angle(Rat(4, 5), Rat(3, 5)),
   Angle(Zero, One), Angle(Rat(-3, 5), Rat(4, 5)), Angle(Rat(4, 5), Rat(-3, 5))}

\* the axis-angle to quaternion conversion: (cos(a/2), sin(a/2) * axis)
AxisAngleQuaternion(u, a) ==
  Quaternion(a.ch, FMul(a.sh, u[0]), FMul(a.sh, u[1]), FMul(a.sh, u[2]))

QuatVals == {AxisAngleQuaternion(u, a) : u \in UnitAxes, a \in AngleVals}

CharVals == {0, 97, 98, 255}

RECURSIVE CharArrays(_)
CharArrays(len) ==
  IF len = 0 THEN {<<>>}
  ELSE {Append(s, c) : s \in CharArrays(len - 1), c \in CharVals}

\* ----------------------------------------------------------------- actions
Init ==
  /\ NDEBUG \in BOOLEAN
  /\ SizeW \in {4, 8}
  /\ CharSigned \in BOOLEAN
  /\ status = "running"
  /\ diag = "none"
  /\ op = "none"
  /\ args = <<>>
  /\ ret = <<>>

Finish(name, input, out) ==
  /\ op' = name
  /\ args' = input
  /\ status' = out.status
  /\ diag' = out.diag
  /\ ret' = out.ret
  /\ UNCHANGED <<NDEBUG, SizeW, CharSigned>>

CallFrustum ==
  /\ status = "running"
  /\ \E il \in DOMAIN XVals, ir \in DOMAIN XVals, ib \in DOMAIN BVals,
        it \in DOMAIN TVals, inear \in DOMAIN ZVals, ifar \in DOMAIN ZVals :
       LET l == XVals[il]
           r == XVals[ir]
           b == BVals[ib]
           t == TVals[it]
           n == ZVals[inear]
           f == ZVals[ifar]
       IN  Finish("frustum", <<l, r, b, t, n, f>>, frustum(NDEBUG, l, r, b, t, n, f))

CallOrtho ==
  /\ status = "running"
  /\ \E il \in DOMAIN XVals, ir \in DOMAIN XVals, ib \in DOMAIN BVals,
        it \in DOMAIN TVals, inear \in DOMAIN ZVals, ifar \in DOMAIN ZVals :
       LET l == XVals[il]
           r == XVals[ir]
           b == BVals[ib]
           t == TVals[it]
           n == ZVals[inear]
           f == ZVals[ifar]
       IN  Finish("ortho", <<l, r, b, t, n, f>>, ortho(NDEBUG, l, r, b, t, n, f))

CallPerspective ==
  /\ status = "running"
  /\ \E iv \in DOMAIN FovVals, ia \in DOMAIN AspectVals,
        inear \in DOMAIN NearVals, ifar \in DOMAIN FarVals :
       LET v_fov == FovVals[iv]
           aspect == AspectVals[ia]
           z_near == NearVals[inear]
           z_far == FarVals[ifar]
       IN  Finish("perspective", <<v_fov, aspect, z_near, z_far>>,
                  perspective(NDEBUG, v_fov, aspect, z_near, z_far))

CallTranslation ==
  /\ status = "running"
  /\ \E x \in DeltaVals, y \in DeltaVals, z \in DeltaVals :
       Finish("translation", <<Vec3f(x, y, z)>>, Returned(translation(Vec3f(x, y, z))))

CallRotation ==
  /\ status = "running"
  /\ \E axis \in AxisVals, angle \in AngleVals :
       Finish("rotation", <<axis, angle>>, Returned(rotation(axis, angle)))

CallRotationQuaternion ==
  /\ status = "running"
  /\ \E q \in QuatVals :
       Finish("rotationQuaternion", <<q>>, Returned(rotationQuaternion(q)))

CallConstHash ==
  /\ status = "running"
  /\ \E N \in 1 .. MaxLen : \E s \in CharArrays(N) :
       Finish("const_hash", <<s>>, Returned(const_hash(s, SizeW, CharSigned)))

CallASSERT ==
  /\ status = "running"
  /\ \E expr \in BOOLEAN :
       Finish("ASSERT", <<expr>>, ASSERT(NDEBUG, expr))

Next ==
  \/ CallFrustum
  \/ CallOrtho
  \/ CallPerspective
  \/ CallTranslation
  \/ CallRotation
  \/ CallRotationQuaternion
  \/ CallConstHash
  \/ CallASSERT

Spec == Init /\ [][Next]_vars

\* ------------------------------------------------------------------ claims
Outcome == [status |-> status, diag |-> diag, ret |-> ret]

\* l == r or b == t or n == f, as C++ compares floats
Degenerate(a) == FEq(a[1], a[2]) \/ FEq(a[3], a[4]) \/ FEq(a[5], a[6])

\* C1: with the checks enabled, a frustum or ortho call with l == r, b == t
\* or n == f ends the process and returns no matrix, and every other call
\* returns a matrix without ending the process.
C1_FatalIffDegenerate ==
  (op \in {"frustum", "ortho"} /\ ~NDEBUG) =>
    IF Degenerate(args)
      THEN status = "terminated" /\ diag # "none" /\ ret = <<>>
      ELSE status = "returned" /\ diag = "none" /\ Len(ret) = 1

C1_Witness ==
  /\ op = "ortho" /\ ~NDEBUG
  /\ args[1] = F(-1) /\ args[2] = F(1) /\ args[3] = F(0) /\ args[4] = F(0)
  /\ FNe(args[5], args[6])
  /\ status = "terminated"

\* the entries of the returned matrix that divide by r - l, t - b, f - n
Affected(name, pair) ==
  CASE pair = 1 -> {<<0, 0>>, IF name = "frustum" THEN <<0, 2>> ELSE <<0, 3>>}
    [] pair = 2 -> {<<1, 1>>, IF name = "frustum" THEN <<1, 2>> ELSE <<1, 3>>}
    [] pair = 3 -> {<<2, 2>>, <<2, 3>>}

\* C9: with NDEBUG defined ASSERT(expr) never calls die, and frustum and
\* ortho called with l == r, b == t or n == f return a matrix whose entries
\* divided by the zero extent are not finite (an infinity or NaN); without
\* NDEBUG, ASSERT(expr) calls die exactly when expr is false.
C9_StrippedChecks ==
  /\ (op = "ASSERT" /\ NDEBUG) => (status = "returned" /\ diag # "die")
  /\ (op = "ASSERT" /\ ~NDEBUG) =>
       ((status = "terminated" /\ diag = "die") <=> ~args[1])
  /\ (op \in {"frustum", "ortho"} /\ NDEBUG) =>
       /\ status = "returned" /\ Len(ret) = 1
       /\ \A pair \in 1 .. 3 :
            FEq(args[2 * pair - 1], args[2 * pair]) =>
              \A e \in Affected(op, pair) : ~IsFinite(ret[1][e[1]][e[2]])

C9_Witness ==
  /\ op = "frustum" /\ NDEBUG
  /\ args[1] = F(1) /\ args[2] = F(1) /\ args[5] = F(1)
  /\ status = "returned"
  /\ ret[1][0][0] = PInf

\* v_fov / 2 degrees in radians (in units of pi)
HalfFovRadians(v_fov) == FMul(FDiv(v_fov, F(2)), FDiv(pi, F(180)))

InOpenInterval(x, lo, hi) == FLt(lo, x) /\ FLt(x, hi)

\* C3: for v_fov in (0, 180), aspect > 0 and z_near != z_far, perspective
\* ends exactly as frustum(-w, w, -h, h, z_near, z_far) does, with
\* h = tan(v_fov/2 in radians) * z_near and w = h * aspect: the same matrix
\* when that call returns one, the same failure when it fails.
C3_PerspectiveIsFrustum ==
  (/\ op = "perspective"
   /\ InOpenInterval(args[1], F(0), F(180))
   /\ FLt(Zero, args[2])
   /\ FNe(args[3], args[4])) =>
    LET h == FMul(tan(HalfFovRadians(args[1])), args[3])
        w == FMul(h, args[2])
    IN  Outcome = frustum(NDEBUG, FNeg(w), w, FNeg(h), h, args[3], args[4])

C3_Witness ==
  /\ op = "perspective"
  /\ args = <<F(60), F(2), F(1), F(2)>>
  /\ status = "returned"
  /\ ret[1][0][0] = Rat(7, 8) /\ ret[1][1][1] = Rat(7, 4) /\ ret[1][2][2] = F(-3)

\* fh and fw as perspective derives them
HalfHeight(a) == FMul(tan(FMul(FDiv(a[1], F(360)), pi)), a[3])
HalfWidth(a) == FMul(HalfHeight(a), a[2])

\* a product that is not zero in exact arithmetic and is zero as a float
Underflows(x, y) == QMul(x, y) # Zero /\ FMul(x, y) = Zero

FatalIffZeroExtent ==
  (status = "terminated") <=>
    (FEq(HalfWidth(args), Zero) \/ FEq(HalfHeight(args), Zero) \/ FEq(args[3], args[4]))

StandardFrustum(l, r, b, t, n, f) ==
  [i \in Idx |->
    CASE i = 0 -> [j \in Idx |->
                    CASE j = 0 -> FDiv(FMul(F(2), n), FSub(r, l))
                      [] j = 2 -> FDiv(FAdd(r, l), FSub(r, l))
                      [] OTHER -> Zero]
      [] i = 1 -> [j \in Idx |->
                    CASE j = 1 -> FDiv(FMul(F(2), n), FSub(t, b))
                      [] j = 2 -> FDiv(FAdd(t, b), FSub(t, b))
                      [] OTHER -> Zero]
      [] i = 2 -> [j \in Idx |->
                    CASE j = 2 -> FNeg(FDiv(FAdd(f, n), FSub(f, n)))
                      [] j = 3 -> FNeg(FDiv(FMul(FMul(F(2), f), n), FSub(f, n)))
                      [] OTHER -> Zero]
      [] i = 3 -> [j \in Idx |-> IF j = 2 THEN F(-1) ELSE Zero]]

\* clip-space z/w of the eye-space point (0, 0, z, 1), M applied to a column
DepthOf(M, z) ==
  FDiv(FAdd(FMul(M[2][2], z), M[2][3]), FAdd(FMul(M[3][2], z), M[3][3]))

FrustumMatrixIsStandard ==
  ret[1] = StandardFrustum(args[1], args[2], args[3], args[4], args[5], args[6])

StandardOrthoRow(i, l, r, b, t, n, f) ==
  CASE i = 0 -> [j \in Idx |->
                  CASE j = 0 -> FDiv(F(2), FSub(r, l))
                    [] j = 3 -> FNeg(FDiv(FAdd(r, l), FSub(r, l)))
                    [] OTHER -> Zero]
    [] i = 1 -> [j \in Idx |->
                  CASE j = 1 -> FDiv(F(2), FSub(t, b))
                    [] j = 3 -> FNeg(FDiv(FAdd(t, b), FSub(t, b)))
                    [] OTHER -> Zero]
    [] i = 2 -> [j \in Idx |->
                  CASE j = 2 -> FNeg(FDiv(F(2), FSub(f, n)))
                    [] j = 3 -> FNeg(FDiv(FAdd(f, n), FSub(f, n)))
                    [] OTHER -> Zero]

\* C5: for l != r, b != t, n != f ortho returns a matrix whose rows 0-2 are
\* those of the standard orthographic projection and whose last row is
\* (0, 0, 0, 0).
C5_StandardOrthoRows ==
  (op = "ortho" /\ ~Degenerate(args)) =>
    /\ status = "returned"
    /\ \A i \in 0 .. 2 :
         ret[1][i] = StandardOrthoRow(i, args[1], args[2], args[3], args[4],
                                      args[5], args[6])
    /\ ret[1][3] = [j \in Idx |-> Zero]

\* the row vector v times the matrix M
RowTimes(v, M) ==
  [j \in Idx |-> FAdd(FAdd(FMul(v[0], M[0][j]), FMul(v[1], M[1][j])),
                      FAdd(FMul(v[2], M[2][j]), FMul(v[3], M[3][j])))]

\* C6: translation(d) is the identity changed only at [3][0], [3][1],
\* [3][2], which hold d[0], d[1], d[2]; the row vector (0, 0, 0, 1) times
\* the matrix is (d[0], d[1], d[2], 1).
C6_TranslationLastRow ==
  (op = "translation") =>
    LET d == args[1]
        M == ret[1]
    IN  /\ status = "returned"
        /\ \A i \in Idx, j \in Idx :
             M[i][j] = IF i = 3 /\ j < 3 THEN d[j]
                       ELSE IF i = j THEN One ELSE Zero
        /\ RowTimes([j \in Idx |-> IF j = 3 THEN One ELSE Zero], M)
             = [j \in Idx |-> IF j < 3 THEN d[j] ELSE One]

C6_Witness ==
  /\ op = "translation"
  /\ args[1] = Vec3f(F(-1), F(0), F(2))
  /\ ret[1][3][0] = F(-1) /\ ret[1][3][2] = F(2) /\ ret[1][3][3] = One
  /\ ret[1][0][3] = Zero

\* C2: rotation(axis, a) and rotation(q) return the same matrix when axis is
\* a unit vector and q = (cos(a/2), sin(a/2) * axis).
C2_AxisAngleAgreesWithQuaternion ==
  (op = "rotationQuaternion") =>
    \A u \in UnitAxes, a \in AngleVals :
      (AxisAngleQuaternion(u, a) = args[1]) => ret[1] = rotation(u, a)

\* exact product of M and the transpose of M
TimesTranspose(M) ==
  [i \in Idx |-> [j \in Idx |->
    QAdd(QAdd(QMul(M[i][0], M[j][0]), QMul(M[i][1], M[j][1])),
         QAdd(QMul(M[i][2], M[j][2]), QMul(M[i][3], M[j][3])))]]

\* squared length of the image of the vector v under the upper 3x3 of M
ImageLength2(M, v) ==
  LET img == [i \in 0 .. 2 |->
               QAdd(QAdd(QMul(M[i][0], v[0]), QMul(M[i][1], v[1])), QMul(M[i][2], v[2]))]
  IN  QAdd(QAdd(QMul(img[0], img[0]), QMul(img[1], img[1])), QMul(img[2], img[2]))

Length2(v) == QAdd(QAdd(QMul(v[0], v[0]), QMul(v[1], v[1])), QMul(v[2], v[2]))

\* C7: for a non-zero axis, R = rotation(axis, angle) is orthogonal (R times
\* its transpose is the identity), so it keeps the length of every vector,
\* and it is the matrix of every other axis of the same direction.
C7_RotationOrthogonal ==
  (op = "rotation") =>
    /\ TimesTranspose(ret[1]) = unit
    /\ \A v \in AxisVals : ImageLength2(ret[1], v) = Length2(v)
    /\ \A other \in AxisVals :
         (normalize(other) = normalize(args[1])) => rotation(other, args[2]) = ret[1]

C7_Witness ==
  /\ op = "rotation"
  /\ args[1] = Vec3f(F(3), F(4), Zero)
  /\ args[2] = Angle(Rat(3, 5), Rat(4, 5))
  /\ ret[1][2][2] = Rat(-7, 25)
  /\ ret[1][0][2] = Rat(96, 125)

\* one step of the fold: h := ((h XOR c) * 16777619) mod 2^(8*w)
FoldStep(h, c, w, signed) == MulW(XorW(h, CharToSizeT(c, w, signed), w), HashPrime(w), w)

\* h folded over s[i], s[i-1], ..., s[0] (s[i] of the source is s[i + 1] here)
RECURSIVE FoldDown(_, _, _, _, _)
FoldDown(h, s, i, w, signed) ==
  IF i < 0 THEN h ELSE FoldDown(FoldStep(h, s[i + 1], w, signed), s, i - 1, w, signed)

\* C8: const_hash(s) is the fold that starts from 2166136261 and takes the
\* bytes of s from index N-1 down to index 0, each once, modulo 2^w; with no
\* byte folded the result is the seed.
C8_HashFoldsLastToFirst ==
  /\ (op = "const_hash") =>
       ret[1] = FoldDown(HashSeed(SizeW), args[1], Len(args[1]) - 1, SizeW, CharSigned)
  /\ hash_calc(<<>>, 0, SizeW, CharSigned) = HashSeed(SizeW)

\* "a" with its terminator on a 32-bit size_t: 0x70772D5A
C8_Witness ==
  /\ op = "const_hash"
  /\ SizeW = 4
  /\ args[1] = <<97, 0>>
  /\ ret[1] = <<90, 45, 119, 112>>
=============================================================================
